---- MODULE Spec2Model ----
(***************************************************************************)
(* Relay side of the hono_tunnel reverse HTTP tunnel: tunnel registry,     *)
(* control-channel hub, request correlator and public ingress.             *)
(*                                                                         *)
(* The repository holds two complete relay programs that share the wire    *)
(* protocol:                                                               *)
(*   "TunnelManager"  src/src/tunnel.ts (class TunnelManager) driven by    *)
(*                    websocket.ts and index.ts, both inside               *)
(*                    src/src/index.js (lines 539-645 and 646-1083);       *)
(*   "Inline"         the single-file server appended to src/Dockerfile    *)
(*                    (lines 28-528).                                      *)
(* The variable build says which of the two is running; it is chosen once  *)
(* in Init and never changes.                                              *)
(*                                                                         *)
(* Strings that the code concatenates or prefix-tests (tunnel ids, request *)
(* ids, pending keys) are sequences of one-character strings.              *)
(***************************************************************************)
EXTENDS Integers, Sequences, FiniteSets, TLC

(***************************************************************************)
(* Bounds of the model.                                                    *)
(***************************************************************************)
\* tunnel records ever created (createTunnel calls that succeed)
MaxTunnelObjs == 2
\* control-channel sockets ever accepted by the WebSocket server
MaxSockets == 2
\* public /t/:id/* requests ever received
MaxRequests == 2
\* tunnel records, sockets and public requests ever created, together
MaxObjects == 5
\* clock steps per request timeout
TicksPerTimeout == 1
\* the clock stops after this many request timeouts
MaxTimeouts == 2

(***************************************************************************)
(* Program constants.                                                      *)
(***************************************************************************)
\* setTimeout(..., 30000) in sendRequest / sendRequestToClient
TimeoutMs == 30000

TickMs == TimeoutMs \div TicksPerTimeout
MaxClock == MaxTimeouts * TimeoutMs

Builds == {"TunnelManager", "Inline"}

\* values generateId() may return (a prefix of a v4 UUID: hex digits)
HexIds == { <<"a">>, <<"b">> }
\* ids a management caller may pass as "subdomain"
Subdomains == { <<"a">>, <<"a", "-", "a">> }
TunnelIds == Subdomains \cup HexIds
\* requestId strings an agent may put into an http_response frame
ReplyIds == HexIds \cup { <<"a", "-", "a">> }
\* status values an agent may put into an http_response frame (0: absent)
ReplyStatuses == {0, 404}
\* localPort values of a create call (0: absent)
LocalPorts == {0, 3000}
\* URL paths of a WebSocket upgrade, as url.pathname.split('/')
WsPaths ==
  { <<"", "ws", t>> : t \in TunnelIds } \cup { <<"", "ws">>, <<"", "api", <<"a">> >> }
Methods == {"GET", "POST"}
\* message.type of a frame; "unparsable" stands for data JSON.parse rejects
FrameTypes == {"http_response", "ping", "status", "unparsable"}

\* inputs of a create call: localPort, subdomain (NoId: absent) and the value
\* generateId() returns if it is called (NoId: it is not called)
CreateInputs ==
  { <<p, s, << >> >> : p \in LocalPorts \ {0}, s \in Subdomains }
    \cup { <<p, << >>, g>> : p \in LocalPorts \ {0}, g \in HexIds }
    \cup { <<0, << >>, << >> >> }
\* frames an agent may send: type, requestId, status
Frames ==
  { <<"http_response", r, st>> : r \in ReplyIds, st \in ReplyStatuses }
    \cup { <<t, << >>, 0>> : t \in FrameTypes \ {"http_response"} }

NoObj == 0
NoSock == 0
NoId == << >>

VARIABLES
  build,            \* which relay program runs
  objs,             \* heap of Tunnel objects, in creation order
  tunnels,          \* Map id -> Tunnel object (index into objs)
  connections,      \* Map id -> WebSocket (index into socks)
  pendingRequests,  \* Map requestKey -> {resolve, reject, timeout} of a request
  timers,           \* armed timeout timers: request -> ms until it is due
  socks,            \* WebSocket objects accepted by the server
  reqs,             \* public requests and the promise each awaits
  now,              \* the relay's wall clock, ms
  lastActivity,     \* tunnel.lastActivity of each Tunnel object, ms
  sweeps,           \* runs of TunnelManager.cleanup so far
  agent,            \* the agent process (class TunnelClient)
  tasks,            \* the agent's handleHttpRequest calls, in arrival order
  wire,             \* one public request followed through relay and agent
  cli               \* one start of an agent program from its command line

vars == <<build, objs, tunnels, connections, pendingRequests, timers,
          socks, reqs>>
sweepVars == <<now, lastActivity, sweeps>>
agentVars == <<agent, tasks>>
pureVars == <<wire, cli>>
allVars == <<vars, sweepVars, agentVars, pureVars>>

\* no request is being followed, no command line is being read
Idle == [pc |-> "idle"]

(***************************************************************************)
(* String helpers.                                                         *)
(***************************************************************************)
\* String.prototype.startsWith
startsWith(s, p) ==
  /\ Len(p) <= Len(s)
  /\ SubSeq(s, 1, Len(p)) = p

\* the template literal `${tunnelId}-${request.id}`
requestKey(tunnelId, requestId) == tunnelId \o <<"-">> \o requestId

\* Map.delete on a map held as a function
MapDelete(m, k) == [x \in (DOMAIN m) \ {k} |-> m[x]]

\* Map.set on a map held as a function
MapSet(m, k, v) == [x \in (DOMAIN m) \cup {k} |-> IF x = k THEN v ELSE m[x]]

EmptyMap == [x \in {} |-> 0]

\* room for one more tunnel record, socket or request
Room == Len(objs) + Len(socks) + Len(reqs) < MaxObjects

\* the agent programs of the repository
AgentPrograms == {"tunnel-client", "local-client", "part_000"}

\* the TunnelClient constructor, before main calls start()
NewAgent(program) ==
  [program |-> program, phase |-> "starting", ws |-> "NONE",
   reconnectAttempts |-> 0, reconnectTimer |-> << >>, pingTimers |-> << >>,
   deleting |-> FALSE, creates |-> 0, streak |-> 0, attempts |-> 0,
   sinceClose |-> 0, sincePing |-> 0, pingBit |-> FALSE]

Init ==
  /\ build \in Builds
  /\ objs = << >>
  /\ tunnels = EmptyMap
  /\ connections = EmptyMap
  /\ pendingRequests = EmptyMap
  /\ timers = EmptyMap
  /\ socks = << >>
  /\ reqs = << >>
  /\ now = 0
  /\ lastActivity = EmptyMap
  /\ sweeps = 0
  /\ agent = NewAgent("tunnel-client")
  /\ tasks = << >>
  /\ wire = Idle
  /\ cli = Idle

(***************************************************************************)
(* Promises and their continuations.                                       *)
(*                                                                         *)
(* A request record holds the promise that sendRequest returns and the     *)
(* handler awaiting it.  settles counts the calls of the promise's resolve *)
(* or reject; only the first one settles it.  The continuation of the      *)
(* awaiting handler runs as a microtask right after the settling handler   *)
(* and is folded into the settling step.                                   *)
(***************************************************************************)
NewReq(tunnelId, tunnel) ==
  [tunnelId |-> tunnelId, tunnel |-> tunnel, id |-> NoId,
   pc |-> "start", sentOn |-> NoSock, age |-> 0, settles |-> 0,
   outcome |-> "none", value |-> "none", reply |-> 0, status |-> 0]

\* response.status || 200
StatusOrDefault(status) == IF status = 0 THEN 200 ELSE status

\* what the proxy handler answers once `await sendRequest(...)` has produced
\* value: a response object, null, or a thrown error
ProxyStatus(value, reply) ==
  CASE value = "response" -> StatusOrDefault(reply)
    [] value = "null"     -> 504
    [] OTHER              -> 500

\* one call of resolve(...) or reject(...) on the promise of request r
Settle(r, outcome, value, reply) ==
  IF r.outcome = "pending"
  THEN [r EXCEPT !.settles = @ + 1, !.outcome = outcome, !.value = value,
                 !.reply = reply, !.pc = "done", !.age = 0,
                 !.status = ProxyStatus(value, reply)]
  ELSE [r EXCEPT !.settles = @ + 1]

\* a handler that counts the request on both sides of its await
UpdateStats_twice(o) ==
  [objs EXCEPT ![o].requestCount = @ + 2]

\* tunnel.requestCount++ (the lastActivity timestamps, which only the idle
\* sweep reads, are followed in SpecSweep)
UpdateStats(o) ==
  [objs EXCEPT ![o].requestCount = @ + 1]

\* ws.close(): a socket that is OPEN starts its closing handshake
CloseSock(ss, w, code) ==
  IF ss[w].readyState = "OPEN"
  THEN [ss EXCEPT ![w].readyState = "CLOSING", ![w].closeCode = code]
  ELSE ss

\* close code observed when close() is called without a code
NoStatusCode == 1005
PolicyViolation == 1002

(***************************************************************************)
(* Tunnel registry.                                                        *)
(***************************************************************************)
NewTunnel(id, localPort) ==
  [id |-> id, localPort |-> localPort, requestCount |-> 0, connected |-> FALSE]

\* POST /api/tunnel/create of index.ts, calling TunnelManager.createTunnel;
\* gen is the value generateId() returns when it is called
createTunnel(localPort, subdomain, gen) ==
  /\ build = "TunnelManager"
  /\ LET id == IF subdomain # NoId THEN subdomain ELSE gen
     IN IF localPort = 0
        THEN UNCHANGED <<objs, tunnels>>
        ELSE IF id \in DOMAIN tunnels
        THEN \* createTunnel throws; the route's catch answers 500
             UNCHANGED <<objs, tunnels>>
        ELSE /\ Len(objs) < MaxTunnelObjs
             /\ Room
             /\ objs' = Append(objs, NewTunnel(id, localPort))
             /\ tunnels' = MapSet(tunnels, id, Len(objs) + 1)
  /\ UNCHANGED <<build, connections, pendingRequests, timers, socks, reqs>>

\* POST /api/tunnel/create of the Dockerfile server
postTunnelCreate(localPort, subdomain, gen) ==
  /\ build = "Inline"
  /\ LET id == IF subdomain # NoId THEN subdomain ELSE gen
     IN IF localPort = 0
        THEN UNCHANGED <<objs, tunnels>>
        ELSE IF id \in DOMAIN tunnels
        THEN UNCHANGED <<objs, tunnels>>
        ELSE /\ Len(objs) < MaxTunnelObjs
             /\ Room
             /\ objs' = Append(objs, NewTunnel(id, localPort))
             /\ tunnels' = MapSet(tunnels, id, Len(objs) + 1)
  /\ UNCHANGED <<build, connections, pendingRequests, timers, socks, reqs>>

\* the HTTP status POST /api/tunnel/create of index.ts answers for these
\* inputs in the current state: 400 without localPort, the catch's 500 when
\* createTunnel throws 'Tunnel ID already exists', else c.json's 200
createTunnelStatus(localPort, subdomain, gen) ==
  LET id == IF subdomain # NoId THEN subdomain ELSE gen
  IN IF localPort = 0 THEN 400
     ELSE IF id \in DOMAIN tunnels THEN 500
     ELSE 200

\* the HTTP status POST /api/tunnel/create of the Dockerfile server answers
postTunnelCreateStatus(localPort, subdomain, gen) ==
  LET id == IF subdomain # NoId THEN subdomain ELSE gen
  IN IF localPort = 0 THEN 400
     ELSE IF id \in DOMAIN tunnels THEN 409
     ELSE 200

\* the status the running server answers to a create call
createStatus(localPort, subdomain, gen) ==
  IF build = "TunnelManager"
  THEN createTunnelStatus(localPort, subdomain, gen)
  ELSE postTunnelCreateStatus(localPort, subdomain, gen)

\* keys of pendingRequests that deleteTunnel(id) rejects
DeletedKeys(id) == {k \in DOMAIN pendingRequests : startsWith(k, id)}

\* DELETE /api/tunnel/:id of index.ts, calling TunnelManager.deleteTunnel
deleteTunnel(id) ==
  /\ build = "TunnelManager"
  /\ IF id \notin DOMAIN tunnels
     THEN UNCHANGED <<tunnels, connections, pendingRequests, timers, socks, reqs>>
     ELSE LET keys == DeletedKeys(id)
              Q    == {pendingRequests[k] : k \in keys}
          IN /\ socks' = IF id \in DOMAIN connections
                         THEN CloseSock(socks, connections[id], NoStatusCode)
                         ELSE socks
             /\ connections' = MapDelete(connections, id)
             /\ timers' = [q \in (DOMAIN timers) \ Q |-> timers[q]]
             /\ reqs' = [q \in DOMAIN reqs |->
                           IF q \in Q THEN Settle(reqs[q], "deleted", "error", 0)
                                      ELSE reqs[q]]
             /\ pendingRequests' =
                  [k \in (DOMAIN pendingRequests) \ keys |-> pendingRequests[k]]
             /\ tunnels' = MapDelete(tunnels, id)
  /\ UNCHANGED <<build, objs>>

\* DELETE /api/tunnel/:id of the Dockerfile server
deleteTunnelRoute(id) ==
  /\ build = "Inline"
  /\ IF id \notin DOMAIN tunnels
     THEN UNCHANGED <<tunnels, connections, socks>>
     ELSE /\ socks' = IF id \in DOMAIN connections
                      THEN CloseSock(socks, connections[id], NoStatusCode)
                      ELSE socks
          /\ tunnels' = MapDelete(tunnels, id)
          /\ connections' = MapDelete(connections, id)
  /\ UNCHANGED <<build, objs, pendingRequests, timers, reqs>>

(***************************************************************************)
(* Control channel hub.                                                    *)
(***************************************************************************)
\* a WebSocket accepted by the server; tunnelId and tunnel are the variables
\* its handlers close over, handlers says whether message/close/error
\* handlers were registered
NewSock ==
  [tunnelId |-> NoId, tunnel |-> NoObj, readyState |-> "OPEN", closeCode |-> 0,
   handlers |-> FALSE, welcomed |-> FALSE]

\* a path check that only counts the segments
BadWsPath_lengthOnly(pathParts) == Len(pathParts) # 3

\* the path check: pathParts.length !== 3 || pathParts[1] !== 'ws'
BadWsPath(pathParts) == Len(pathParts) # 3 \/ pathParts[2] # "ws"

\* connectWebSocket without its existingWs.close(): the earlier socket stays
\* open
connectWebSocket_noClose(ss, tunnelId) == ss

\* TunnelManager.connectWebSocket: the sockets after closing the existing
\* connection of tunnelId, if any
connectWebSocket(ss, tunnelId) ==
  IF tunnelId \in DOMAIN connections
  THEN CloseSock(ss, connections[tunnelId], NoStatusCode)
  ELSE ss

\* wss.on('connection') without its welcome message
wsOnConnection_noWelcome(pathParts) ==
  /\ build = "TunnelManager"
  /\ Len(socks) < MaxSockets
  /\ Room
  /\ LET w  == Len(socks) + 1
         ss == Append(socks, NewSock)
     IN IF BadWsPath(pathParts) \/ pathParts[3] \notin DOMAIN tunnels
        THEN /\ socks' = CloseSock(ss, w, PolicyViolation)
             /\ UNCHANGED <<objs, connections>>
        ELSE LET tunnelId == pathParts[3]
                 o        == tunnels[tunnelId]
                 closed   == connectWebSocket(ss, tunnelId)
             IN /\ connections' = MapSet(connections, tunnelId, w)
                /\ objs' = [objs EXCEPT ![o].connected = TRUE]
                /\ socks' = [closed EXCEPT ![w].tunnelId = tunnelId,
                                           ![w].tunnel = o,
                                           ![w].handlers = TRUE]
  /\ UNCHANGED <<build, tunnels, pendingRequests, timers, reqs>>

\* wss.on('connection') of websocket.ts
wsOnConnection(pathParts) ==
  /\ build = "TunnelManager"
  /\ Len(socks) < MaxSockets
  /\ Room
  /\ LET w  == Len(socks) + 1
         ss == Append(socks, NewSock)
     IN IF BadWsPath(pathParts) \/ pathParts[3] \notin DOMAIN tunnels
        THEN /\ socks' = CloseSock(ss, w, PolicyViolation)
             /\ UNCHANGED <<objs, connections>>
        ELSE LET tunnelId == pathParts[3]
                 o        == tunnels[tunnelId]
                 closed   == connectWebSocket(ss, tunnelId)
             IN /\ connections' = MapSet(connections, tunnelId, w)
                /\ objs' = [objs EXCEPT ![o].connected = TRUE]
                /\ socks' = [closed EXCEPT ![w].tunnelId = tunnelId,
                                           ![w].tunnel = o,
                                           ![w].welcomed = TRUE,
                                           ![w].handlers = TRUE]
  /\ UNCHANGED <<build, tunnels, pendingRequests, timers, reqs>>

\* setupWebSocket of the Dockerfile server: the sockets after closing the
\* existing connection of tunnelId, if any
closeExisting(ss, tunnelId) ==
  IF tunnelId \in DOMAIN connections
  THEN CloseSock(ss, connections[tunnelId], NoStatusCode)
  ELSE ss

\* wss.on('connection') of the Dockerfile server
setupWebSocket(pathParts) ==
  /\ build = "Inline"
  /\ Len(socks) < MaxSockets
  /\ Room
  /\ LET w  == Len(socks) + 1
         ss == Append(socks, NewSock)
     IN IF BadWsPath(pathParts) \/ pathParts[3] \notin DOMAIN tunnels
        THEN /\ socks' = CloseSock(ss, w, PolicyViolation)
             /\ UNCHANGED <<objs, connections>>
        ELSE LET tunnelId == pathParts[3]
                 o        == tunnels[tunnelId]
                 closed   == closeExisting(ss, tunnelId)
             IN /\ connections' = MapSet(connections, tunnelId, w)
                /\ objs' = [objs EXCEPT ![o].connected = TRUE]
                /\ socks' = [closed EXCEPT ![w].tunnelId = tunnelId,
                                           ![w].tunnel = o,
                                           ![w].welcomed = TRUE,
                                           ![w].handlers = TRUE]
  /\ UNCHANGED <<build, tunnels, pendingRequests, timers, reqs>>

\* TunnelManager.disconnectWebSocket: the Tunnel objects afterwards
disconnectWebSocket(tunnelId) ==
  IF tunnelId \in DOMAIN tunnels
  THEN [objs EXCEPT ![tunnels[tunnelId]].connected = FALSE]
  ELSE objs

\* the close and error handlers of the Dockerfile server, which write to the
\* Tunnel object their closure captured: the Tunnel objects afterwards
markDisconnected(w) == [objs EXCEPT ![socks[w].tunnel].connected = FALSE]

\* what a close or error event of socket w does to the relay's maps
Detach(w) ==
  IF socks[w].handlers
  THEN /\ objs' = IF build = "TunnelManager"
                  THEN disconnectWebSocket(socks[w].tunnelId)
                  ELSE markDisconnected(w)
       /\ connections' = MapDelete(connections, socks[w].tunnelId)
  ELSE UNCHANGED <<objs, connections>>

\* the peer's close frame arrives or the transport starts to fail: the
\* socket leaves OPEN before any event is emitted
TransportClosing(w) ==
  /\ socks[w].readyState = "OPEN"
  /\ socks' = [socks EXCEPT ![w].readyState = "CLOSING"]
  /\ UNCHANGED <<build, objs, tunnels, connections, pendingRequests,
                 timers, reqs>>

\* ws.on('error')
wsOnError(w) ==
  /\ socks[w].handlers
  /\ socks[w].readyState = "OPEN"
  /\ Detach(w)
  /\ socks' = [socks EXCEPT ![w].readyState = "CLOSING"]
  /\ UNCHANGED <<build, tunnels, pendingRequests, timers, reqs>>

\* ws.on('close')
wsOnClose(w) ==
  /\ socks[w].readyState = "CLOSING"
  /\ Detach(w)
  /\ socks' = [socks EXCEPT ![w].readyState = "CLOSED"]
  /\ UNCHANGED <<build, tunnels, pendingRequests, timers, reqs>>

(***************************************************************************)
(* Request correlator.                                                     *)
(***************************************************************************)
\* reqs with the record of request q set to r (q may be the next new one)
PutReq(q, r) ==
  IF q = Len(reqs) + 1 THEN Append(reqs, r) ELSE [reqs EXCEPT ![q] = r]

\* TunnelManager.sendRequest and the handler's continuation up to its await;
\* r is the record of request q with its id already drawn
sendRequest(q, r) ==
  LET key == requestKey(r.tunnelId, r.id)
      armed == [r EXCEPT !.outcome = "pending"]
  IN IF r.tunnelId \notin DOMAIN connections
     THEN \* throws 'No active connection for tunnel'; the route's catch answers
          /\ reqs' = PutReq(q, [r EXCEPT !.pc = "done", !.outcome = "noconn",
                                         !.value = "error",
                                         !.status = ProxyStatus("error", 0)])
          /\ UNCHANGED <<pendingRequests, timers>>
     ELSE LET c == connections[r.tunnelId]
          IN IF socks[c].readyState = "OPEN"
             THEN /\ reqs' = PutReq(q, [armed EXCEPT !.pc = "awaiting",
                                                     !.sentOn = c])
                  /\ pendingRequests' = MapSet(pendingRequests, key, q)
                  /\ timers' = MapSet(timers, q, TimeoutMs)
             ELSE \* send on a socket that is not open: the ws library either
                  \* throws or discards the frame
                  \/ /\ reqs' = PutReq(q, Settle(armed, "sendfail", "error", 0))
                     /\ pendingRequests' = MapDelete(pendingRequests, key)
                     /\ timers' = MapDelete(timers, q)
                  \/ /\ reqs' = PutReq(q, [armed EXCEPT !.pc = "awaiting"])
                     /\ pendingRequests' = MapSet(pendingRequests, key, q)
                     /\ timers' = MapSet(timers, q, TimeoutMs)

\* sendRequestToClient of the Dockerfile server, likewise
sendRequestToClient(q, r) ==
  LET key == requestKey(r.tunnelId, r.id)
      armed == [r EXCEPT !.outcome = "pending"]
  IN IF \/ r.tunnelId \notin DOMAIN connections
        \/ socks[connections[r.tunnelId]].readyState # "OPEN"
     THEN \* returns null
          /\ reqs' = PutReq(q, [r EXCEPT !.pc = "done", !.outcome = "noconn",
                                         !.value = "null",
                                         !.status = ProxyStatus("null", 0)])
          /\ UNCHANGED <<pendingRequests, timers>>
     ELSE /\ reqs' = PutReq(q, [armed EXCEPT !.pc = "awaiting",
                                             !.sentOn = connections[r.tunnelId]])
          /\ pendingRequests' = MapSet(pendingRequests, key, q)
          /\ timers' = MapSet(timers, q, TimeoutMs)

\* this.pendingRequests.get(requestKey) in handleResponse: the request whose
\* record a reply with requestId, arriving for tunnelId, finds (0: none)
NoReq == 0
pendingFor(tunnelId, requestId) ==
  LET key == requestKey(tunnelId, requestId)
  IN IF key \in DOMAIN pendingRequests THEN pendingRequests[key] ELSE NoReq

\* handleResponse without clearTimeout and pendingRequests.delete: the record
\* and its timer outlive the reply
handleResponse_keepsRecord(tunnelId, requestId, status) ==
  LET q == pendingFor(tunnelId, requestId)
  IN IF q # NoReq
     THEN    /\ reqs' = [reqs EXCEPT ![q] = Settle(@, "reply", "response", status)]
             /\ objs' = UpdateStats(reqs[q].tunnel)
             /\ UNCHANGED <<timers, pendingRequests>>
     ELSE UNCHANGED <<timers, reqs, objs, pendingRequests>>

\* handleResponse (tunnel.ts and Dockerfile alike): a reply with requestId
\* and status arrives on a socket bound to tunnelId
handleResponse(tunnelId, requestId, status) ==
  LET key == requestKey(tunnelId, requestId)
      q   == pendingFor(tunnelId, requestId)
  IN IF q # NoReq
     THEN    /\ timers' = MapDelete(timers, q)
             /\ reqs' = [reqs EXCEPT ![q] = Settle(@, "reply", "response", status)]
             /\ objs' = IF reqs[q].outcome = "pending"
                        THEN UpdateStats(reqs[q].tunnel)
                        ELSE objs
             /\ pendingRequests' = MapDelete(pendingRequests, key)
     ELSE UNCHANGED <<timers, reqs, objs, pendingRequests>>

\* the timeout callback without pendingRequests.delete: the record stays
timeoutReject_keepsRecord(q) ==
  /\ reqs' = [reqs EXCEPT ![q] = Settle(@, "timeout", "error", 0)]
  /\ pendingRequests' = pendingRequests

\* the timeout callback armed by sendRequest (tunnel.ts) for request q
timeoutReject(q) ==
  /\ reqs' = [reqs EXCEPT ![q] = Settle(@, "timeout", "error", 0)]
  /\ pendingRequests' =
       MapDelete(pendingRequests, requestKey(reqs[q].tunnelId, reqs[q].id))

\* the timeout callback armed by sendRequestToClient (Dockerfile)
timeoutResolveNull(q) ==
  /\ reqs' = [reqs EXCEPT ![q] = Settle(@, "timeout", "null", 0)]
  /\ pendingRequests' =
       MapDelete(pendingRequests, requestKey(reqs[q].tunnelId, reqs[q].id))

\* a timeout callback that also gives the agent up: it drops the attachment
TimerFires_dropsTunnel(q) ==
  /\ q \in DOMAIN timers
  /\ timers[q] = 0
  /\ timers' = MapDelete(timers, q)
  /\ IF build = "TunnelManager" THEN timeoutReject(q) ELSE timeoutResolveNull(q)
  /\ connections' = MapDelete(connections, reqs[q].tunnelId)
  /\ UNCHANGED <<build, objs, tunnels, socks>>

\* a timer of the event loop comes due
TimerFires(q) ==
  /\ q \in DOMAIN timers
  /\ timers[q] = 0
  /\ timers' = MapDelete(timers, q)
  /\ IF build = "TunnelManager" THEN timeoutReject(q) ELSE timeoutResolveNull(q)
  /\ UNCHANGED <<build, objs, tunnels, connections, socks>>

\* time passes; a timer that is due fires before the clock moves on
Tick ==
  /\ \E q \in DOMAIN reqs : reqs[q].outcome = "pending"
  /\ \A q \in DOMAIN timers : timers[q] >= TickMs
  /\ \A q \in DOMAIN reqs :
        reqs[q].outcome = "pending" => reqs[q].age + TickMs <= MaxClock
  /\ timers' = [q \in DOMAIN timers |-> timers[q] - TickMs]
  /\ reqs' = [q \in DOMAIN reqs |->
                IF reqs[q].outcome = "pending"
                THEN [reqs[q] EXCEPT !.age = @ + TickMs]
                ELSE reqs[q]]
  /\ UNCHANGED <<build, objs, tunnels, connections, pendingRequests, socks>>

\* a message handler that closes the socket on a frame it does not understand
wsOnMessage_closesOnUnknown(w, type, requestId, status) ==
  /\ socks[w].handlers
  /\ \/ socks[w].readyState = "OPEN"
     \/ socks[w].readyState = "CLOSING" /\ socks[w].closeCode # 0
  /\ CASE type = "http_response" ->
            /\ handleResponse(socks[w].tunnelId, requestId, status)
            /\ UNCHANGED socks
       [] type = "ping" -> UNCHANGED <<timers, reqs, objs, pendingRequests, socks>>
       [] OTHER -> /\ socks' = CloseSock(socks, w, PolicyViolation)
                   /\ UNCHANGED <<timers, reqs, objs, pendingRequests>>
  /\ UNCHANGED <<build, tunnels, connections>>

\* ws.on('message'): a frame of the given type arrives on socket w.  A frame
\* that is no http_response changes nothing here: a ping only refreshes
\* lastActivity, an unknown type is ignored, and unparsable data is logged
\* (and, in websocket.ts, answered with an error frame)
wsOnMessage(w, type, requestId, status) ==
  /\ socks[w].handlers
  /\ \/ socks[w].readyState = "OPEN"
     \/ socks[w].readyState = "CLOSING" /\ socks[w].closeCode # 0
  /\ CASE type = "http_response" ->
            handleResponse(socks[w].tunnelId, requestId, status)
       [] OTHER -> UNCHANGED <<timers, reqs, objs, pendingRequests>>
  /\ UNCHANGED <<build, tunnels, connections, socks>>

(***************************************************************************)
(* Public ingress.                                                         *)
(***************************************************************************)
\* app.all('/t/:id/*') without its `if (!tunnel.connected)` test
proxyRequest_ignoresConnected(tunnelId, method) ==
  /\ Len(reqs) < MaxRequests
  /\ Room
  /\ LET q == Len(reqs) + 1
     IN IF tunnelId \notin DOMAIN tunnels
        THEN /\ reqs' = Append(reqs, [NewReq(tunnelId, NoObj) EXCEPT
                                        !.pc = "done", !.outcome = "notfound",
                                        !.status = 404])
             /\ UNCHANGED <<pendingRequests, timers>>
        ELSE LET o == tunnels[tunnelId]
             IN IF FALSE
                THEN /\ reqs' = Append(reqs, [NewReq(tunnelId, o) EXCEPT
                                  !.pc = "done", !.outcome = "notconnected",
                                  !.status = 503])
                     /\ UNCHANGED <<pendingRequests, timers>>
                ELSE \E gen \in HexIds :
                       LET r == [NewReq(tunnelId, o) EXCEPT !.id = gen]
                       IN IF method # "GET"
                          THEN \* await c.req.text()
                               /\ reqs' = Append(reqs, [r EXCEPT !.pc = "body"])
                               /\ UNCHANGED <<pendingRequests, timers>>
                          ELSE IF build = "TunnelManager"
                          THEN sendRequest(q, r)
                          ELSE sendRequestToClient(q, r)
  /\ UNCHANGED <<build, objs, tunnels, connections, socks>>

\* app.all('/t/:id/*') answering an unknown tunnel id like a disconnected one
proxyRequest_unknownIs503(tunnelId, method) ==
  /\ Len(reqs) < MaxRequests
  /\ Room
  /\ LET q == Len(reqs) + 1
     IN IF tunnelId \notin DOMAIN tunnels
        THEN /\ reqs' = Append(reqs, [NewReq(tunnelId, NoObj) EXCEPT
                                        !.pc = "done", !.outcome = "notfound",
                                        !.status = 503])
             /\ UNCHANGED <<pendingRequests, timers>>
        ELSE LET o == tunnels[tunnelId]
             IN IF ~objs[o].connected
                THEN /\ reqs' = Append(reqs, [NewReq(tunnelId, o) EXCEPT
                                  !.pc = "done", !.outcome = "notconnected",
                                  !.status = 503])
                     /\ UNCHANGED <<pendingRequests, timers>>
                ELSE \E gen \in HexIds :
                       LET r == [NewReq(tunnelId, o) EXCEPT !.id = gen]
                       IN IF method # "GET"
                          THEN \* await c.req.text()
                               /\ reqs' = Append(reqs, [r EXCEPT !.pc = "body"])
                               /\ UNCHANGED <<pendingRequests, timers>>
                          ELSE IF build = "TunnelManager"
                          THEN sendRequest(q, r)
                          ELSE sendRequestToClient(q, r)
  /\ UNCHANGED <<build, objs, tunnels, connections, socks>>

\* app.all('/t/:id/*'), up to its first await; gen is the value generateId()
\* returns when it is called
proxyRequest(tunnelId, method) ==
  /\ Len(reqs) < MaxRequests
  /\ Room
  /\ LET q == Len(reqs) + 1
     IN IF tunnelId \notin DOMAIN tunnels
        THEN /\ reqs' = Append(reqs, [NewReq(tunnelId, NoObj) EXCEPT
                                        !.pc = "done", !.outcome = "notfound",
                                        !.status = 404])
             /\ UNCHANGED <<pendingRequests, timers>>
        ELSE LET o == tunnels[tunnelId]
             IN IF ~objs[o].connected
                THEN /\ reqs' = Append(reqs, [NewReq(tunnelId, o) EXCEPT
                                  !.pc = "done", !.outcome = "notconnected",
                                  !.status = 503])
                     /\ UNCHANGED <<pendingRequests, timers>>
                ELSE \E gen \in HexIds :
                       LET r == [NewReq(tunnelId, o) EXCEPT !.id = gen]
                       IN IF method # "GET"
                          THEN \* await c.req.text()
                               /\ reqs' = Append(reqs, [r EXCEPT !.pc = "body"])
                               /\ UNCHANGED <<pendingRequests, timers>>
                          ELSE IF build = "TunnelManager"
                          THEN sendRequest(q, r)
                          ELSE sendRequestToClient(q, r)
  /\ UNCHANGED <<build, objs, tunnels, connections, socks>>

\* proxyBodyRead handing the frame over without looking at the connection
proxyBodyRead_noCheck(q) ==
  /\ reqs[q].pc = "body"
  /\ reqs' = [reqs EXCEPT ![q].pc = "awaiting", ![q].outcome = "pending"]
  /\ pendingRequests' = MapSet(pendingRequests,
                               requestKey(reqs[q].tunnelId, reqs[q].id), q)
  /\ timers' = MapSet(timers, q, TimeoutMs)
  /\ UNCHANGED <<build, objs, tunnels, connections, socks>>

\* the request body has been read: the handler goes on to send
proxyBodyRead(q) ==
  /\ reqs[q].pc = "body"
  /\ IF build = "TunnelManager"
     THEN sendRequest(q, reqs[q])
     ELSE sendRequestToClient(q, reqs[q])
  /\ UNCHANGED <<build, objs, tunnels, connections, socks>>

Next ==
  \/ \E c \in CreateInputs : createTunnel(c[1], c[2], c[3])
       /\ UNCHANGED <<sweepVars, agentVars, pureVars>>
  \/ \E c \in CreateInputs : postTunnelCreate(c[1], c[2], c[3])
       /\ UNCHANGED <<sweepVars, agentVars, pureVars>>
  \/ \E id \in TunnelIds : deleteTunnel(id)
       /\ UNCHANGED <<sweepVars, agentVars, pureVars>>
  \/ \E id \in TunnelIds : deleteTunnelRoute(id)
       /\ UNCHANGED <<sweepVars, agentVars, pureVars>>
  \/ \E path \in WsPaths : wsOnConnection(path)
       /\ UNCHANGED <<sweepVars, agentVars, pureVars>>
  \/ \E path \in WsPaths : setupWebSocket(path)
       /\ UNCHANGED <<sweepVars, agentVars, pureVars>>
  \/ \E w \in DOMAIN socks : TransportClosing(w)
       /\ UNCHANGED <<sweepVars, agentVars, pureVars>>
  \/ \E w \in DOMAIN socks : wsOnError(w)
       /\ UNCHANGED <<sweepVars, agentVars, pureVars>>
  \/ \E w \in DOMAIN socks : wsOnClose(w)
       /\ UNCHANGED <<sweepVars, agentVars, pureVars>>
  \/ \E w \in DOMAIN socks, f \in Frames : wsOnMessage(w, f[1], f[2], f[3])
       /\ UNCHANGED <<sweepVars, agentVars, pureVars>>
  \/ \E t \in TunnelIds, m \in Methods : proxyRequest(t, m)
       /\ UNCHANGED <<sweepVars, agentVars, pureVars>>
  \/ \E q \in DOMAIN reqs : proxyBodyRead(q)
       /\ UNCHANGED <<sweepVars, agentVars, pureVars>>
  \/ \E q \in DOMAIN reqs : TimerFires(q)
       /\ UNCHANGED <<sweepVars, agentVars, pureVars>>
  \/ Tick
       /\ UNCHANGED <<sweepVars, agentVars, pureVars>>

\* the relay alone: its clock, the sweep and the agent process stand still
Spec == Init /\ [][Next]_allVars

(***************************************************************************)
(* Properties.                                                             *)
(***************************************************************************)
\* the pending key of request q
KeyOf(q) == requestKey(reqs[q].tunnelId, reqs[q].id)

\* the promise of request q has been created and is not settled
Unresolved(q) == reqs[q].outcome = "pending"

\* request q holds the record stored under its key
HasRecord(q) ==
  /\ KeyOf(q) \in DOMAIN pendingRequests
  /\ pendingRequests[KeyOf(q)] = q

\* C1: every recorded attachment is a socket whose handlers are bound to that
\* tunnel id (one per id), and a step that records a new socket for an id that
\* already had one leaves the earlier socket closed by the relay (no longer
\* OPEN) in the very state in which the new one is recorded.
C1_SingleAttachment ==
  /\ [](\A t \in DOMAIN connections :
          /\ connections[t] \in DOMAIN socks
          /\ socks[connections[t]].handlers
          /\ socks[connections[t]].tunnelId = t)
  /\ [][\A t \in DOMAIN connections :
          (t \in DOMAIN connections' /\ connections'[t] # connections[t])
            => /\ socks'[connections[t]].readyState # "OPEN"
               /\ socks[connections[t]].readyState = "OPEN"
                    => socks'[connections[t]].closeCode = NoStatusCode
               /\ socks'[connections'[t]].readyState = "OPEN"]_vars

\* C1 witness: a tunnel whose recorded socket replaced an earlier socket of
\* the same tunnel record, and that earlier socket was closed by the relay.
C1_Witness ==
  \E t \in DOMAIN connections : \E w \in DOMAIN socks :
    /\ w # connections[t]
    /\ t \in DOMAIN tunnels
    /\ socks[w].handlers
    /\ socks[w].tunnel = tunnels[t]
    /\ socks[connections[t]].tunnel = tunnels[t]
    /\ socks[w].closeCode = NoStatusCode
    /\ socks[w].readyState = "CLOSING"

\* C2: new attachment wins.  When the close event of a socket is processed
\* while another socket of the same tunnel record is the recorded attachment,
\* that attachment stays recorded and the tunnel stays connected.
C2_NewAttachmentWins ==
  [][\A w \in DOMAIN socks :
       LET t == socks[w].tunnelId
       IN (/\ socks[w].handlers
           /\ socks[w].readyState = "CLOSING"
           /\ socks'[w].readyState = "CLOSED"
           /\ t \in DOMAIN connections
           /\ connections[t] # w
           /\ t \in DOMAIN tunnels
           /\ socks[connections[t]].tunnel = socks[w].tunnel
           /\ tunnels[t] = socks[w].tunnel)
          => /\ t \in DOMAIN connections'
             /\ connections'[t] = connections[t]
             /\ objs'[tunnels[t]].connected]_vars

\* C3: for every live tunnel, connected is true exactly when the attachment
\* map holds a socket for its id.
C3_ConnectedIffAttached ==
  \A t \in DOMAIN tunnels :
    objs[tunnels[t]].connected <=> t \in DOMAIN connections

\* the ways a pending request is resolved
Resolutions == {"reply", "timeout", "deleted", "sendfail"}

C5_MatchedById ==
  \A w \in DOMAIN socks : \A r \in ReplyIds :
    LET q == pendingFor(socks[w].tunnelId, r)
    IN (socks[w].handlers /\ q # NoReq)
         => /\ reqs[q].tunnelId = socks[w].tunnelId
            /\ reqs[q].id = r

\* C6: two requests whose promises are unresolved never share a pending key,
\* so every unresolved request holds the record stored under its key.
C6_UniquePendingKey ==
  /\ \A p, q \in DOMAIN reqs :
       (p # q /\ Unresolved(p) /\ Unresolved(q)) => KeyOf(p) # KeyOf(q)
  /\ \A q \in DOMAIN reqs : Unresolved(q) => HasRecord(q)

\* C7: a step that detaches the channel of a tunnel that stays in the
\* registry (a close or error event) resolves every unresolved request of
\* that tunnel and leaves no pending record of it.
C7_DropCancelsPending ==
  [][\A t \in DOMAIN connections :
       (t \notin DOMAIN connections' /\ t \in DOMAIN tunnels')
         => \A q \in DOMAIN reqs :
              (reqs[q].tunnelId = t /\ Unresolved(q))
                => /\ reqs'[q].outcome # "pending"
                   /\ KeyOf(q) \notin DOMAIN pendingRequests']_vars

\* C8: a step that deletes a live tunnel closes its attached socket, resolves
\* every unresolved request of that tunnel with 'Tunnel deleted' and leaves
\* no pending record of it.
C8_DeleteCancelsPending ==
  [][\A t \in DOMAIN tunnels :
       t \notin DOMAIN tunnels'
         => /\ t \notin DOMAIN connections'
            /\ t \in DOMAIN connections
                 => socks'[connections[t]].readyState # "OPEN"
            /\ \A q \in DOMAIN reqs :
                 (reqs[q].tunnelId = t /\ Unresolved(q))
                   => /\ reqs'[q].outcome = "deleted"
                      /\ KeyOf(q) \notin DOMAIN pendingRequests']_vars

\* C9: deadline law.  An unresolved request is never older than 30 s and its
\* timer is armed; a request resolved by its timer was exactly 30 s old, and
\* the step removes the record stored under its key; when no request is
\* unresolved the pending map is empty.
C9_DeadlineLaw ==
  /\ [](\A q \in DOMAIN reqs :
          Unresolved(q) => /\ reqs[q].age <= TimeoutMs
                           /\ q \in DOMAIN timers)
  /\ []((\A q \in DOMAIN reqs : ~Unresolved(q)) => pendingRequests = EmptyMap)
  /\ [][\A q \in DOMAIN reqs :
          (Unresolved(q) /\ reqs'[q].outcome = "timeout")
            => /\ reqs[q].age = TimeoutMs
               /\ KeyOf(q) \notin DOMAIN pendingRequests'
               /\ q \notin DOMAIN timers']_vars

\* C9 witness: the only request ever dispatched was resolved by its timer and
\* the pending map is empty.
C9_Witness ==
  /\ Len(reqs) = 1
  /\ reqs[1].outcome = "timeout"
  /\ reqs[1].sentOn # NoSock
  /\ pendingRequests = EmptyMap

\* C10: a public request resolved by its timer is answered with status 504.
C10_TimeoutIs504 ==
  \A q \in DOMAIN reqs : reqs[q].outcome = "timeout" => reqs[q].status = 504

\* C11: a public request whose promise was rejected by the deletion of its
\* tunnel ('Tunnel deleted') is answered with status 502.
C11_GoneIs502 ==
  \A q \in DOMAIN reqs : reqs[q].outcome = "deleted" => reqs[q].status = 502

\* C12: a public request whose frame could not be written (send threw during
\* dispatch) is answered with status 502, and neither its pending record nor
\* its timer is left behind.
C12_SendFailedIs502 ==
  \A q \in DOMAIN reqs :
    reqs[q].outcome = "sendfail"
      => /\ reqs[q].status = 502
         /\ KeyOf(q) \notin DOMAIN pendingRequests
         /\ q \notin DOMAIN timers

\* C13: a public request that arrives for a registered tunnel whose connected
\* flag is false is answered with 503 at once: nothing is sent on any socket,
\* no pending record and no timer is installed, and no Tunnel object (so no
\* requestCount) changes.
C13_NotConnectedIs503 ==
  [][Len(reqs') = Len(reqs) + 1
       => LET r == reqs'[Len(reqs')]
          IN (/\ r.tunnelId \in DOMAIN tunnels
              /\ ~objs[tunnels[r.tunnelId]].connected)
               => /\ r.status = 503
                  /\ r.pc = "done"
                  /\ r.sentOn = NoSock
                  /\ r.id = NoId
                  /\ UNCHANGED <<pendingRequests, timers, objs, socks>>]_vars

\* C13 witness: a request for a registered, not connected tunnel was answered
\* with 503.
C13_Witness ==
  \E q \in DOMAIN reqs :
    /\ reqs[q].outcome = "notconnected"
    /\ reqs[q].status = 503
    /\ reqs[q].tunnelId \in DOMAIN tunnels
    /\ ~objs[tunnels[reqs[q].tunnelId]].connected

\* C14: a public request that arrives for a tunnel id that is not in the
\* registry is answered with 404 at once and changes neither the registry, nor
\* the attachment map, nor the pending map.
C14_UnknownIs404 ==
  [][Len(reqs') = Len(reqs) + 1
       => LET r == reqs'[Len(reqs')]
          IN r.tunnelId \notin DOMAIN tunnels
               => /\ r.status = 404
                  /\ r.pc = "done"
                  /\ r.sentOn = NoSock
                  /\ UNCHANGED <<tunnels, objs, connections, pendingRequests,
                                 timers, socks>>]_vars

\* C14 witness: a request for an id that is not registered was answered with
\* 404 while another tunnel is registered and attached.
C14_Witness ==
  \E q \in DOMAIN reqs :
    /\ reqs[q].outcome = "notfound"
    /\ reqs[q].status = 404
    /\ reqs[q].tunnelId \notin DOMAIN tunnels
    /\ connections # EmptyMap

\* C15: counter monotonicity.  No step lowers the requestCount of a Tunnel
\* object, and the count always equals the number of public requests of that
\* tunnel that were resolved by a matched reply: requests that ended any other
\* way add nothing.
C15_CounterMonotone ==
  /\ [](\A o \in DOMAIN objs :
          objs[o].requestCount =
            Cardinality({q \in DOMAIN reqs : /\ reqs[q].tunnel = o
                                             /\ reqs[q].outcome = "reply"}))
  /\ [][\A o \in DOMAIN objs :
          objs'[o].requestCount >= objs[o].requestCount]_vars

\* C15 witness: a tunnel has served one request by a matched reply, counted
\* once, and another request of the same tunnel ended in a timeout.
C15_Witness ==
  \E p, q \in DOMAIN reqs :
    /\ reqs[p].tunnel = reqs[q].tunnel
    /\ reqs[p].outcome = "reply"
    /\ reqs[q].outcome = "timeout"
    /\ objs[reqs[p].tunnel].requestCount = 1

\* C16: reconnect idempotence.  Once the relay has closed a socket of a tunnel
\* id and a later socket has attached to the live tunnel of that id and is
\* still open, the tunnel is connected with that socket as its attachment, so
\* that a public request issued now is forwarded on it.
C16_ReconnectIdempotence ==
  \A v, w \in DOMAIN socks :
    LET t == socks[w].tunnelId
    IN (/\ v < w
        /\ socks[v].handlers
        /\ socks[v].tunnelId = t
        /\ socks[v].closeCode = NoStatusCode
        /\ socks[w].handlers
        /\ socks[w].readyState = "OPEN"
        /\ t \in DOMAIN tunnels
        /\ tunnels[t] = socks[w].tunnel)
       => /\ objs[tunnels[t]].connected
          /\ t \in DOMAIN connections
          /\ connections[t] = w

\* C17: a create call that names a subdomain which is the id of a live tunnel
\* is answered with 409, and the call changes nothing.
C17_DuplicateIs409 ==
  /\ [](\A c \in CreateInputs :
          (c[1] # 0 /\ c[2] # NoId /\ c[2] \in DOMAIN tunnels)
            => createStatus(c[1], c[2], c[3]) = 409)
  /\ [][\A c \in CreateInputs :
          (/\ c[1] # 0 /\ c[2] # NoId /\ c[2] \in DOMAIN tunnels
           /\ \/ createTunnel(c[1], c[2], c[3])
              \/ postTunnelCreate(c[1], c[2], c[3]))
            => UNCHANGED vars]_vars

\* C18: a create call without a subdomain for which generateId() returns the
\* id of a live tunnel still succeeds (it would draw again).
C18_RegenerateOnCollision ==
  \A c \in CreateInputs :
    (c[1] # 0 /\ c[2] = NoId /\ c[3] \in DOMAIN tunnels)
      => createStatus(c[1], c[2], c[3]) = 200

\* C19: a socket that connects on a path other than /ws/{tunnelId}, or names
\* an id that is not registered, is closed with code 1002 without handlers and
\* without a connected frame, and the step changes no Tunnel object, no other
\* socket, and none of the registry, the attachment map and the pending map;
\* a socket without handlers is always one that was closed with 1002.
C19_RejectIs1002 ==
  /\ [](\A w \in DOMAIN socks :
          ~socks[w].handlers => /\ socks[w].closeCode = PolicyViolation
                                /\ socks[w].readyState # "OPEN"
                                /\ ~socks[w].welcomed)
  /\ [][\A path \in WsPaths :
          (/\ \/ Len(path) # 3
              \/ path[2] # "ws"
              \/ path[3] \notin DOMAIN tunnels
           /\ \/ wsOnConnection(path)
              \/ setupWebSocket(path))
            => /\ Len(socks') = Len(socks) + 1
               /\ socks'[Len(socks')].closeCode = PolicyViolation
               /\ socks'[Len(socks')].readyState = "CLOSING"
               /\ ~socks'[Len(socks')].handlers
               /\ \A v \in DOMAIN socks : socks'[v] = socks[v]
               /\ UNCHANGED <<objs, tunnels, connections, pendingRequests,
                              timers, reqs>>]_vars

\* C19 witness: a socket was closed with 1002 while a tunnel is registered and
\* attached.
C19_Witness ==
  \E w \in DOMAIN socks :
    /\ socks[w].closeCode = PolicyViolation
    /\ ~socks[w].handlers
    /\ connections # EmptyMap

\* C20: the step that attaches a socket marks its tunnel connected and sends
\* the connected frame on it before any request can use it: the recorded
\* socket of every tunnel, and every socket an http_request frame was sent
\* on, has had its connected frame, and no request has gone out on a socket in
\* the state in which it attaches.
C20_ConnectedFrameFirst ==
  /\ [](\A t \in DOMAIN connections : socks[connections[t]].welcomed)
  /\ [](\A q \in DOMAIN reqs :
          reqs[q].sentOn # NoSock => socks[reqs[q].sentOn].welcomed)
  /\ [][\A w \in DOMAIN socks' :
          (w \notin DOMAIN socks /\ socks'[w].handlers)
            => /\ socks'[w].welcomed
               /\ objs'[socks'[w].tunnel].connected
               /\ connections'[socks'[w].tunnelId] = w
               /\ \A q \in DOMAIN reqs' : reqs'[q].sentOn # w]_vars

\* C20 witness: an http_request frame went out on an attached socket that had
\* received its connected frame.
C20_Witness ==
  \E q \in DOMAIN reqs :
    /\ reqs[q].sentOn # NoSock
    /\ socks[reqs[q].sentOn].welcomed
    /\ reqs[q].pc = "awaiting"

\* C21: an http_response arriving on a socket of tunnel t with a requestId r,
\* while no unresolved request of tunnel t has id r, is dropped: the step
\* changes nothing (pending map, Tunnel objects, attachment map included).
C21_UnmatchedReplyDropped ==
  [][\A w \in DOMAIN socks : \A f \in Frames :
       (/\ f[1] = "http_response"
        /\ ~ \E q \in DOMAIN reqs : /\ Unresolved(q)
                                    /\ reqs[q].tunnelId = socks[w].tunnelId
                                    /\ reqs[q].id = f[2]
        /\ wsOnMessage(w, f[1], f[2], f[3]))
         => UNCHANGED vars]_vars

\* C22: a step in which a public request fails (timeout, send failure, or the
\* error of a missing connection) leaves the registry, the attachment map,
\* the connected flags and the sockets as they were; the request is done with
\* one status and is never touched again, so it is not sent a second time.
C22_NoRetryTunnelStaysUp ==
  /\ [][\A q \in DOMAIN reqs' :
          (/\ reqs'[q].outcome \in {"timeout", "sendfail", "noconn"}
           /\ (q \in DOMAIN reqs => reqs[q].pc # "done"))
            => /\ reqs'[q].pc = "done"
               /\ reqs'[q].status \in {500, 504}
               /\ q \notin DOMAIN timers'
               /\ UNCHANGED <<tunnels, connections, socks>>
               /\ \A o \in DOMAIN objs : objs'[o].connected = objs[o].connected]_vars
  /\ [][\A q \in DOMAIN reqs :
          reqs[q].pc = "done" => reqs'[q] = reqs[q]]_vars

\* C22 witness: a request ended in a timeout while its tunnel is still
\* registered, connected, and attached through the socket the request went
\* out on.
C22_Witness ==
  \E q \in DOMAIN reqs :
    LET t == reqs[q].tunnelId
    IN /\ reqs[q].outcome = "timeout"
       /\ reqs[q].pc = "done"
       /\ t \in DOMAIN tunnels
       /\ tunnels[t] = reqs[q].tunnel
       /\ objs[tunnels[t]].connected
       /\ t \in DOMAIN connections
       /\ connections[t] = reqs[q].sentOn
       /\ socks[reqs[q].sentOn].readyState = "OPEN"

SweepTicksPerDay == 2
\* the clock stops after this many idle thresholds
MaxSweepDays == 2
\* cleanup() runs at most this often
MaxSweeps == 2

\* const maxInactiveTime = 24 * 60 * 60 * 1000
maxInactiveTime == 24 * 60 * 60 * 1000

SweepTickMs == maxInactiveTime \div SweepTicksPerDay
MaxNow == MaxSweepDays * maxInactiveTime

InitSweep ==
  /\ Init
  /\ build = "TunnelManager"

\* createTunnel with the timestamp of the new record: lastActivity: new Date()
createTunnelAt(localPort, subdomain, gen) ==
  /\ createTunnel(localPort, subdomain, gen)
  /\ lastActivity' = IF Len(objs') > Len(objs)
                     THEN MapSet(lastActivity, Len(objs'), now)
                     ELSE lastActivity
  /\ UNCHANGED <<now, sweeps, agentVars, pureVars>>

\* wss.on('connection') with connectWebSocket's tunnel.lastActivity = new Date()
wsOnConnectionAt(pathParts) ==
  /\ wsOnConnection(pathParts)
  /\ lastActivity' = IF BadWsPath(pathParts) \/ pathParts[3] \notin DOMAIN tunnels
                     THEN lastActivity
                     ELSE MapSet(lastActivity, tunnels[pathParts[3]], now)
  /\ UNCHANGED <<now, sweeps, agentVars, pureVars>>

\* a ping frame arrives on socket w: handleWebSocketMessage looks the tunnel
\* up by id and sets its lastActivity
wsOnPingAt(w) ==
  /\ wsOnMessage(w, "ping", NoId, 0)
  /\ lastActivity' = IF socks[w].tunnelId \in DOMAIN tunnels
                     THEN MapSet(lastActivity, tunnels[socks[w].tunnelId], now)
                     ELSE lastActivity
  /\ UNCHANGED <<now, sweeps, agentVars, pureVars>>

\* time passes at the relay
AdvanceClock ==
  /\ now + SweepTickMs <= MaxNow
  /\ now' = now + SweepTickMs
  /\ UNCHANGED <<vars, lastActivity, sweeps, agentVars, pureVars>>

\* deleteTunnel(id) called for each id of ids in turn
deleteTunnels(ids) ==
  LET keys == UNION {DeletedKeys(id) : id \in ids}
      Q    == {pendingRequests[k] : k \in keys}
      W    == {connections[id] : id \in ids \cap DOMAIN connections}
  IN /\ socks' = [w \in DOMAIN socks |->
                    IF w \in W THEN CloseSock(socks, w, NoStatusCode)[w]
                               ELSE socks[w]]
     /\ connections' = [id \in (DOMAIN connections) \ ids |-> connections[id]]
     /\ timers' = [q \in (DOMAIN timers) \ Q |-> timers[q]]
     /\ reqs' = [q \in DOMAIN reqs |->
                   IF q \in Q THEN Settle(reqs[q], "deleted", "error", 0)
                              ELSE reqs[q]]
     /\ pendingRequests' =
          [k \in (DOMAIN pendingRequests) \ keys |-> pendingRequests[k]]
     /\ tunnels' = [id \in (DOMAIN tunnels) \ ids |-> tunnels[id]]

\* a sweep that forgets the connected test
cleanup_ignoresConnected ==
  /\ build = "TunnelManager"
  /\ sweeps < MaxSweeps
  /\ sweeps' = sweeps + 1
  /\ deleteTunnels({id \in DOMAIN tunnels :
                      now - lastActivity[tunnels[id]] > maxInactiveTime})
  /\ UNCHANGED <<build, objs, now, lastActivity, agentVars, pureVars>>

\* a sweep whose age test is >= instead of >
cleanup_atThreshold ==
  /\ build = "TunnelManager"
  /\ sweeps < MaxSweeps
  /\ sweeps' = sweeps + 1
  /\ deleteTunnels({id \in DOMAIN tunnels :
                      /\ now - lastActivity[tunnels[id]] >= maxInactiveTime
                      /\ ~ objs[tunnels[id]].connected})
  /\ UNCHANGED <<build, objs, now, lastActivity, agentVars, pureVars>>

\* TunnelManager.cleanup
cleanup ==
  /\ build = "TunnelManager"
  /\ sweeps < MaxSweeps
  /\ sweeps' = sweeps + 1
  /\ deleteTunnels({id \in DOMAIN tunnels :
                      LET inactiveTime == now - lastActivity[tunnels[id]]
                      IN /\ inactiveTime > maxInactiveTime
                         /\ ~ objs[tunnels[id]].connected})
  /\ UNCHANGED <<build, objs, now, lastActivity, agentVars, pureVars>>

NextSweep ==
  \/ \E c \in CreateInputs : createTunnelAt(c[1], c[2], c[3])
  \/ \E path \in WsPaths : wsOnConnectionAt(path)
  \/ \E w \in DOMAIN socks : wsOnPingAt(w)
  \/ \E w \in DOMAIN socks : TransportClosing(w) /\ UNCHANGED <<sweepVars, agentVars, pureVars>>
  \/ \E w \in DOMAIN socks : wsOnError(w) /\ UNCHANGED <<sweepVars, agentVars, pureVars>>
  \/ \E w \in DOMAIN socks : wsOnClose(w) /\ UNCHANGED <<sweepVars, agentVars, pureVars>>
  \/ AdvanceClock
  \/ cleanup

SpecSweep == InitSweep /\ [][NextSweep]_allVars

\* C24: a run of the idle sweep removes exactly the tunnels that have no
\* attachment and whose lastActivity lies more than 24 h before now; every
\* tunnel whose connected flag is true and every tunnel whose lastActivity is
\* at most 24 h old stays registered, with its record, and the sweep changes
\* no Tunnel object.
C24_SweepIdle ==
  [][sweeps' # sweeps =>
       /\ DOMAIN tunnels' =
            {id \in DOMAIN tunnels :
               ~ (/\ id \notin DOMAIN connections
                  /\ now - lastActivity[tunnels[id]] > 24 * 60 * 60 * 1000)}
       /\ \A id \in DOMAIN tunnels :
            \/ objs[tunnels[id]].connected
            \/ now - lastActivity[tunnels[id]] <= 24 * 60 * 60 * 1000
            => /\ id \in DOMAIN tunnels'
               /\ tunnels'[id] = tunnels[id]
       /\ objs' = objs]_allVars

\* C24 witness: a sweep has run and removed a tunnel record that had been idle
\* for more than 24 h, while it kept a connected tunnel that had been idle for
\* just as long.
C24_Witness ==
  /\ sweeps > 0
  /\ \E o \in DOMAIN objs :
       /\ \A id \in DOMAIN tunnels : tunnels[id] # o
       /\ ~ objs[o].connected
       /\ now - lastActivity[o] > 24 * 60 * 60 * 1000
  /\ \E id \in DOMAIN tunnels :
       /\ objs[tunnels[id]].connected
       /\ now - lastActivity[tunnels[id]] > 24 * 60 * 60 * 1000

(***************************************************************************)
(* The agent (class TunnelClient).  The repository holds three copies of   *)
(* the agent program, which differ where noted:                            *)
(*   "tunnel-client"  src/client/tunnel-client.js                          *)
(*   "local-client"   src/client/local-client.js                           *)
(*   "part_000"       src/unnamed/part_000                                 *)
(* agent.program says which one runs.  The agent owns one WebSocket at a   *)
(* time (this.ws); agent.ws is its readyState.  Timers are held with the   *)
(* milliseconds left until they are due.  The fields creates, streak,      *)
(* attempts, sinceClose, sincePing and pingBit are not fields of the       *)
(* program: they record what it has done (createTunnel calls, re-open      *)
(* attempts since the last 'open', re-open attempts in all, time since the *)
(* last 'close' event, time since the last ping frame, and a bit that      *)
(* flips with every ping frame sent).                                      *)
(***************************************************************************)
\* clock steps per reconnect interval
AgentTicksPerReconnect == 1
\* re-open attempts the agent makes in its lifetime
MaxAttempts == 7
\* setInterval timers the agent holds
MaxPingTimers == 2
\* http_request frames the agent receives
MaxTasks == 2

\* this.maxReconnectAttempts = 5
maxReconnectAttempts == 5
\* this.reconnectInterval = 5000
reconnectInterval == 5000
\* setInterval(..., 30000) in startPingInterval
PingIntervalMs == 30000

AgentTickMs == reconnectInterval \div AgentTicksPerReconnect

\* res.statusCode values of the local origin
UpstreamStatuses == {200, 404}
\* what forwardToLocal ends with: a status, or 0 for a rejection (connection
\* refused, timeout)
ForwardOutcomes == UpstreamStatuses \cup {0}

Min(a, b) == IF a < b THEN a ELSE b

\* the sequence s without its element i
RemoveAt(s, i) == SubSeq(s, 1, i - 1) \o SubSeq(s, i + 1, Len(s))

\* the process has started and has not exited
AgentAlive == agent.phase \in {"running", "shutdown"}

InitAgent ==
  /\ build = "TunnelManager"
  /\ objs = << >>
  /\ tunnels = EmptyMap
  /\ connections = EmptyMap
  /\ pendingRequests = EmptyMap
  /\ timers = EmptyMap
  /\ socks = << >>
  /\ reqs = << >>
  /\ now = 0
  /\ lastActivity = EmptyMap
  /\ sweeps = 0
  /\ agent \in {NewAgent(p) : p \in AgentPrograms}
  /\ tasks = << >>
  /\ wire = Idle
  /\ cli = Idle

\* startPingInterval: one more setInterval timer, never cleared
startPingInterval(a) == [a EXCEPT !.pingTimers = Append(@, PingIntervalMs)]

\* main: client.start(), which creates the tunnel, opens the channel (the
\* 'open' handler runs) and starts the ping timer (local-client.js starts it
\* in main, right after start()); any failure ends the process with code 1
start(ok) ==
  /\ agent.phase = "starting"
  /\ agent' = IF ok
              THEN startPingInterval([agent EXCEPT !.phase = "running",
                                                   !.creates = @ + 1,
                                                   !.ws = "OPEN",
                                                   !.reconnectAttempts = 0])
              ELSE [agent EXCEPT !.phase = "exit1"]
  /\ UNCHANGED <<vars, sweepVars, tasks, pureVars>>

\* the relay's close frame arrives or the transport fails: this.ws leaves OPEN
agentTransportClosing ==
  /\ AgentAlive
  /\ agent.ws = "OPEN"
  /\ agent' = [agent EXCEPT !.ws = "CLOSING"]
  /\ UNCHANGED <<vars, sweepVars, tasks, pureVars>>

\* attemptReconnect without its cap
attemptReconnect_noCap(a) ==
  [a EXCEPT !.reconnectAttempts = @ + 1,
            !.reconnectTimer = Append(@, reconnectInterval)]

\* attemptReconnect
attemptReconnect(a) ==
  IF a.reconnectAttempts >= maxReconnectAttempts
  THEN [a EXCEPT !.phase = "exit1"]
  ELSE [a EXCEPT !.reconnectAttempts = @ + 1,
                 !.reconnectTimer = Append(@, reconnectInterval)]

\* ws.on('close'): the socket has closed, after being open or after a failed
\* attempt to connect (whose 'error' event only rejects the promise the timer
\* callback awaits)
agentOnClose ==
  /\ AgentAlive
  /\ agent.ws \in {"CLOSING", "CONNECTING"}
  /\ agent' = attemptReconnect([agent EXCEPT !.ws = "CLOSED", !.sinceClose = 0])
  /\ UNCHANGED <<vars, sweepVars, tasks, pureVars>>

\* the setTimeout callback of attemptReconnect runs connectWebSocket: a new
\* socket for the same this.wsUrl
reconnectTimerFires(i) ==
  /\ AgentAlive
  /\ agent.reconnectTimer[i] = 0
  /\ agent.attempts < MaxAttempts
  /\ agent' = [agent EXCEPT !.reconnectTimer = RemoveAt(@, i),
                            !.ws = "CONNECTING",
                            !.streak = @ + 1,
                            !.attempts = @ + 1]
  /\ UNCHANGED <<vars, sweepVars, tasks, pureVars>>

\* an 'open' handler that leaves the counter alone
agentOnOpen_noReset ==
  /\ AgentAlive
  /\ agent.ws = "CONNECTING"
  /\ agent.program = "tunnel-client" => Len(agent.pingTimers) < MaxPingTimers
  /\ LET a == [agent EXCEPT !.ws = "OPEN", !.streak = 0]
     IN agent' = IF agent.program = "tunnel-client"
                 THEN startPingInterval(a)
                 ELSE a
  /\ UNCHANGED <<vars, sweepVars, tasks, pureVars>>

\* ws.on('open') of a re-opened socket, and the continuation of the timer
\* callback after `await this.connectWebSocket()`: tunnel-client.js calls
\* startPingInterval() there, the other two programs only log
agentOnOpen ==
  /\ AgentAlive
  /\ agent.ws = "CONNECTING"
  /\ agent.program = "tunnel-client" => Len(agent.pingTimers) < MaxPingTimers
  /\ LET a == [agent EXCEPT !.ws = "OPEN", !.reconnectAttempts = 0,
                            !.streak = 0]
     IN agent' = IF agent.program = "tunnel-client"
                 THEN startPingInterval(a)
                 ELSE a
  /\ UNCHANGED <<vars, sweepVars, tasks, pureVars>>

\* a setInterval callback of startPingInterval runs
pingTimerFires(i) ==
  /\ AgentAlive
  /\ agent.pingTimers[i] = 0
  /\ agent' = IF agent.ws = "OPEN"
              THEN [agent EXCEPT !.pingTimers[i] = PingIntervalMs,
                                 !.sincePing = 0,
                                 !.pingBit = ~ @]
              ELSE [agent EXCEPT !.pingTimers[i] = PingIntervalMs]
  /\ UNCHANGED <<vars, sweepVars, tasks, pureVars>>

\* time passes at the agent; a timer that is due runs before the clock moves
AgentTick ==
  /\ AgentAlive
  /\ \A i \in DOMAIN agent.reconnectTimer : agent.reconnectTimer[i] >= AgentTickMs
  /\ \A i \in DOMAIN agent.pingTimers : agent.pingTimers[i] >= AgentTickMs
  /\ agent' = [agent EXCEPT
                 !.reconnectTimer = [i \in DOMAIN @ |-> @[i] - AgentTickMs],
                 !.pingTimers = [i \in DOMAIN @ |-> @[i] - AgentTickMs],
                 !.sinceClose = IF agent.ws = "CLOSED"
                                THEN Min(@ + AgentTickMs, reconnectInterval)
                                ELSE @,
                 !.sincePing = Min(@ + AgentTickMs, PingIntervalMs)]
  /\ UNCHANGED <<vars, sweepVars, tasks, pureVars>>

\* the SIGINT / SIGTERM handler up to the await in cleanup(): ws.close() if
\* the socket is OPEN, then the DELETE request is sent
sigint ==
  /\ agent.phase = "running"
  /\ agent' = [agent EXCEPT !.phase = "shutdown",
                            !.ws = IF @ = "OPEN" THEN "CLOSING" ELSE @,
                            !.deleting = TRUE]
  /\ UNCHANGED <<vars, sweepVars, tasks, pureVars>>

\* the DELETE request ends (answered, refused or timed out): cleanup()
\* returns and the handler calls process.exit(0).  The request may take any
\* time: httpRequest gives up after 15 s in tunnel-client.js and after 30 s
\* in part_000, and has no timeout in local-client.js
deleteDone ==
  /\ agent.phase = "shutdown"
  /\ agent.deleting
  /\ agent' = [agent EXCEPT !.phase = "exit0", !.deleting = FALSE]
  /\ UNCHANGED <<vars, sweepVars, tasks, pureVars>>

NextAgent ==
  \/ \E ok \in BOOLEAN : start(ok)
  \/ agentTransportClosing
  \/ agentOnClose
  \/ \E i \in DOMAIN agent.reconnectTimer : reconnectTimerFires(i)
  \/ agentOnOpen
  \/ \E i \in DOMAIN agent.pingTimers : pingTimerFires(i)
  \/ AgentTick
  \/ sigint
  \/ deleteDone

\* the agent's connection, timers and shutdown; it receives no request
SpecAgent == InitAgent /\ [][NextAgent]_allVars

\* C25: after a channel close the agent makes at most 5 re-open attempts in a
\* row; each attempt starts 5 s after the close before it and creates no
\* tunnel (the agent calls createTunnel once in its life), and when the 5th
\* attempt in a row fails the process exits with code 1.
C25_ReconnectCap ==
  /\ [](agent.streak <= 5 /\ agent.creates <= 1)
  /\ [][(agent.ws # "CONNECTING" /\ agent'.ws = "CONNECTING")
          => /\ agent.ws = "CLOSED"
             /\ agent.sinceClose = 5000
             /\ agent'.creates = agent.creates]_allVars
  /\ [][(agent.ws = "CONNECTING" /\ agent'.ws = "CLOSED" /\ agent.streak = 5)
          => agent'.phase = "exit1"]_allVars

\* C25 witness: the agent created one tunnel, was attached, and exited with
\* code 1 when its 5th re-open attempt in a row had failed.
C25_Witness ==
  /\ agent.phase = "exit1"
  /\ agent.creates = 1
  /\ agent.streak = 5
  /\ agent.ws = "CLOSED"
  /\ ~ agent.deleting

\* C26: the attempt counter stays within 0..5, and the step in which a
\* re-opened channel reports 'open' sets it to 0.
C26_CounterReset ==
  /\ [](agent.reconnectAttempts \in 0..5)
  /\ [][(agent.ws = "CONNECTING" /\ agent'.ws = "OPEN")
          => agent'.reconnectAttempts = 0]_allVars

\* C26 witness: the agent has made more than 5 re-open attempts in its life,
\* is attached again and its counter is 0.
C26_Witness ==
  /\ agent.phase = "running"
  /\ agent.attempts > 5
  /\ agent.ws = "OPEN"
  /\ agent.reconnectAttempts = 0

\* C29: the agent holds at most one ping timer, and every ping frame it sends
\* comes at least 30 s after the one before.
C29_OnePingPer30s ==
  /\ [](Len(agent.pingTimers) <= 1)
  /\ [][agent'.pingBit # agent.pingBit => agent.sincePing >= 30000]_allVars

\* C30: the interrupt closes the channel and sends the DELETE; from then on
\* the agent opens no new channel and the process ends with code 0 only.
C30_GracefulShutdown ==
  /\ [][(agent.phase = "running" /\ agent'.phase = "shutdown")
          => /\ agent'.ws # "OPEN"
             /\ agent'.deleting]_allVars
  /\ [][agent.phase = "shutdown"
          => /\ agent'.phase \in {"shutdown", "exit0"}
             /\ ~ (agent.ws # "CONNECTING" /\ agent'.ws = "CONNECTING")]_allVars

(***************************************************************************)
(* The agent's request handling.  Each http_request frame starts one call  *)
(* of the async function handleHttpRequest, which nobody awaits; a task    *)
(* record follows it through its awaits.  responses counts the             *)
(* http_response frames the call has put on the channel, status is the     *)
(* status of the last one, forwards counts its requests to the local       *)
(* origin, cause says how it ended, sentClosed says whether it called      *)
(* ws.send while the socket was not OPEN.                                  *)
(***************************************************************************)
NewTask(id) ==
  [id |-> id, pc |-> "probe", responses |-> 0, status |-> 0, forwards |-> 0,
   cause |-> "none", sentClosed |-> FALSE]

\* the frame of task k is on the channel
Emit(k, status, cause) ==
  [tasks EXCEPT ![k].pc = "done", ![k].responses = @ + 1,
                ![k].status = status, ![k].cause = cause]

\* task k ends without a frame; attempted: it called ws.send all the same
EndSilent(k, cause, attempted) ==
  [tasks EXCEPT ![k].pc = "done", ![k].cause = cause,
                ![k].sentClosed = @ \/ attempted]

\* ws.send on a socket that is not OPEN throws while it is CONNECTING; once
\* it is CLOSING or CLOSED the ws library either throws or discards the frame
MayThrow == agent.ws # "OPEN"
MayDiscard == agent.ws \in {"CLOSING", "CLOSED"}

\* sendErrorResponse(request.id, status, ...) at the end of task k.
\* tunnel-client.js sends only if the socket is OPEN.  part_000 (and the
\* catch block of local-client.js) send unguarded: if send throws there, the
\* promise of handleHttpRequest rejects with nobody handling it, which ends
\* the process with code 1 on Node 15 and later and is only logged before
sendErrorResponse(k, status, cause) ==
  IF agent.ws = "OPEN"
  THEN /\ tasks' = Emit(k, status, cause)
       /\ UNCHANGED agent
  ELSE IF agent.program = "tunnel-client"
  THEN /\ tasks' = EndSilent(k, cause, cause = "send")
       /\ UNCHANGED agent
  ELSE /\ tasks' = EndSilent(k, cause, TRUE)
       /\ \/ MayDiscard /\ UNCHANGED agent
          \/ MayThrow /\ UNCHANGED agent
          \/ MayThrow /\ agent' = [agent EXCEPT !.phase = "exit1"]

\* a message handler that starts a request only when the one before is done
handleHttpRequest_serial(id) ==
  /\ AgentAlive
  /\ agent.ws = "OPEN"
  /\ Len(tasks) < MaxTasks
  /\ \A k \in DOMAIN tasks : tasks[k].pc = "done"
  /\ tasks' = Append(tasks,
                IF agent.program = "local-client"
                THEN [NewTask(id) EXCEPT !.pc = "forward", !.forwards = 1]
                ELSE NewTask(id))
  /\ UNCHANGED <<vars, sweepVars, agent, pureVars>>

\* an http_request frame with this id arrives: handleWebSocketMessage calls
\* handleHttpRequest, which runs up to its first await: the probe
\* testLocalServer() in tunnel-client.js and part_000, forwardToLocal() in
\* local-client.js, which has no probe
handleHttpRequest(id) ==
  /\ AgentAlive
  /\ agent.ws = "OPEN"
  /\ Len(tasks) < MaxTasks
  /\ tasks' = Append(tasks,
                IF agent.program = "local-client"
                THEN [NewTask(id) EXCEPT !.pc = "forward", !.forwards = 1]
                ELSE NewTask(id))
  /\ UNCHANGED <<vars, sweepVars, agent, pureVars>>

\* testLocalServer() of task k has returned
probeDone(k, up) ==
  /\ AgentAlive
  /\ tasks[k].pc = "probe"
  /\ IF up
     THEN /\ tasks' = [tasks EXCEPT ![k].pc = "forward", ![k].forwards = @ + 1]
          /\ UNCHANGED agent
     ELSE sendErrorResponse(k, 503, "probe")
  /\ UNCHANGED <<vars, sweepVars, pureVars>>

\* forwardToLocal() of task k has ended with outcome: the handler sends the
\* response with an unguarded this.ws.send, and its catch block answers 500
forwardDone(k, outcome) ==
  /\ AgentAlive
  /\ tasks[k].pc = "forward"
  /\ IF outcome = 0
     THEN sendErrorResponse(k, 500, "origin")
     ELSE \/ /\ agent.ws = "OPEN"
             /\ tasks' = Emit(k, outcome, "upstream")
             /\ UNCHANGED agent
          \/ /\ MayDiscard
             /\ tasks' = EndSilent(k, "upstream", TRUE)
             /\ UNCHANGED agent
          \/ /\ MayThrow
             /\ sendErrorResponse(k, 500, "send")
  /\ UNCHANGED <<vars, sweepVars, pureVars>>

NextAgentReq ==
  \/ \E ok \in BOOLEAN : start(ok)
  \/ agentTransportClosing
  \/ agentOnClose
  \/ \E i \in DOMAIN agent.reconnectTimer : reconnectTimerFires(i)
  \/ agentOnOpen
  \/ AgentTick
  \/ sigint
  \/ deleteDone
  \/ \E id \in HexIds : handleHttpRequest(id)
  \/ \E k \in DOMAIN tasks, up \in BOOLEAN : probeDone(k, up)
  \/ \E k \in DOMAIN tasks, outcome \in ForwardOutcomes : forwardDone(k, outcome)

\* the agent with the requests it serves, from its start until its first
\* ping is due: the ping callback is not among the steps, so the clock stops
\* after PingIntervalMs
SpecAgentReq == InitAgent /\ [][NextAgentReq]_allVars

\* C27: every http_request the agent has finished handling got exactly one
\* http_response frame: 503 if the probe of the local origin failed, the
\* origin's status if forwarding succeeded, 500 after any other failure; no
\* request gets two frames and none is sent to the origin twice.
C27_ExactlyOneResponse ==
  \A k \in DOMAIN tasks :
    /\ tasks[k].responses <= 1
    /\ tasks[k].forwards <= 1
    /\ tasks[k].pc = "done" =>
         /\ tasks[k].responses = 1
         /\ tasks[k].cause = "probe" => tasks[k].status = 503
         /\ tasks[k].cause = "upstream" => tasks[k].status \in UpstreamStatuses
         /\ tasks[k].cause \in {"origin", "send"} => tasks[k].status = 500

\* C28: while the channel is open the agent accepts a further http_request
\* whatever its earlier requests are waiting for, and a request whose origin
\* has answered can be finished whatever the other requests are waiting for.
C28_IndependentTasks ==
  /\ (/\ agent.phase \in {"running", "shutdown"}
      /\ agent.ws = "OPEN"
      /\ Len(tasks) < MaxTasks)
       => ENABLED (\E id \in HexIds : handleHttpRequest(id))
  /\ \A k \in DOMAIN tasks :
       (/\ agent.phase \in {"running", "shutdown"}
        /\ agent.ws = "OPEN"
        /\ tasks[k].pc = "forward")
         => ENABLED forwardDone(k, 200)

\* C28 witness: a later request has been forwarded, answered by the origin
\* and its http_response sent, while an earlier request is still waiting for
\* the origin.
C28_Witness ==
  \E j \in DOMAIN tasks : \E k \in DOMAIN tasks :
    /\ j < k
    /\ tasks[j].pc = "forward"
    /\ tasks[k].pc = "done"
    /\ tasks[k].forwards = 1
    /\ tasks[k].responses = 1
    /\ tasks[k].cause = "upstream"

\* C34: cross-tunnel isolation of replies.  A step in which an http_response
\* frame is handled on a socket leaves every request of any other tunnel id
\* exactly as it was, whatever requestId the frame carries.
C34_ReplyIsolation ==
  [][\A w \in DOMAIN socks : \A f \in Frames :
       (f[1] = "http_response" /\ wsOnMessage(w, f[1], f[2], f[3]))
         => \A q \in DOMAIN reqs :
              reqs[q].tunnelId # socks[w].tunnelId => reqs'[q] = reqs[q]]_vars

\* C35: a step that removes tunnel t from the registry leaves every unresolved
\* request of a tunnel that stays registered unresolved, with its record and
\* its timer.
C35_DeleteFrame ==
  [][\A t \in DOMAIN tunnels :
       t \notin DOMAIN tunnels'
         => \A q \in DOMAIN reqs :
              (/\ Unresolved(q)
               /\ reqs[q].tunnelId # t
               /\ reqs[q].tunnelId \in DOMAIN tunnels')
                => /\ reqs'[q] = reqs[q]
                   /\ q \in DOMAIN timers => q \in DOMAIN timers'
                   /\ HasRecord(q) =>
                        /\ KeyOf(q) \in DOMAIN pendingRequests'
                        /\ pendingRequests'[KeyOf(q)] = q]_vars

\* C36: the armed timers and the records of the pending map correspond one to
\* one: every record belongs to a request with an armed timer, every armed
\* timer belongs to an unresolved request that holds the record under its key,
\* and a timer that fires removes no record but its own.
C36_TimersMatchRecords ==
  /\ [](/\ \A k \in DOMAIN pendingRequests : pendingRequests[k] \in DOMAIN timers
        /\ \A q \in DOMAIN timers : Unresolved(q) /\ HasRecord(q))
  /\ [][\A q \in DOMAIN timers :
          (timers[q] = 0 /\ q \notin DOMAIN timers')
            => \A k \in DOMAIN pendingRequests :
                 pendingRequests[k] # q => /\ k \in DOMAIN pendingRequests'
                                           /\ pendingRequests'[k] = pendingRequests[k]]_vars

\* C37: a close or error event of a socket whose Tunnel object is no longer
\* the one registered under its id changes neither the connected flag nor the
\* attachment of the tunnel now registered under that id.
C37_StaleEventHarmless ==
  [][\A w \in DOMAIN socks :
       LET t == socks[w].tunnelId
       IN (/\ socks[w].handlers
           /\ socks'[w].readyState # socks[w].readyState
           /\ socks[w].readyState # "CLOSED"
           /\ t \in DOMAIN tunnels
           /\ tunnels[t] # socks[w].tunnel
           /\ t \in DOMAIN tunnels'
           /\ tunnels'[t] = tunnels[t])
          => /\ objs'[tunnels[t]].connected = objs[tunnels[t]].connected
             /\ t \in DOMAIN connections <=> t \in DOMAIN connections'
             /\ t \in DOMAIN connections => connections'[t] = connections[t]]_vars

\* C38: when the body of a public request has been read and its tunnel id has
\* no attachment any more (the channel was detached or the tunnel deleted
\* meanwhile), the request ends in that step with an error status, and the
\* step arms no timer and stores no record for it.
C38_BodyRaceFails ==
  [][\A q \in DOMAIN reqs :
       (/\ reqs[q].pc = "body"
        /\ reqs'[q].pc # "body"
        /\ reqs[q].tunnelId \notin DOMAIN connections)
         => /\ reqs'[q].pc = "done"
            /\ reqs'[q].status >= 400
            /\ q \notin DOMAIN timers'
            /\ \A k \in DOMAIN pendingRequests' : pendingRequests'[k] # q
            /\ pendingRequests' = pendingRequests]_vars

\* C38 witness: a request passed the connected check, and when its body had
\* been read its tunnel had no attachment; it has ended with an error status.
\* (In the TunnelManager build a request that is sent right after the
\* connected check always finds the attachment, so the outcome "noconn" there
\* marks a request whose body was being read meanwhile.)
C38_Witness ==
  \E q \in DOMAIN reqs :
    /\ build = "TunnelManager"
    /\ reqs[q].pc = "done"
    /\ reqs[q].outcome = "noconn"
    /\ reqs[q].id # NoId
    /\ reqs[q].status >= 400
    /\ reqs[q].tunnelId \notin DOMAIN connections
    /\ q \notin DOMAIN timers

\* C39: no request handler calls ws.send while the socket is not OPEN, and a
\* step of a request handler taken while the socket is not OPEN leaves the
\* process running as it was (no uncaught failure), so that the reconnection
\* goes on.
C39_NoSendOnClosed ==
  /\ [](\A k \in DOMAIN tasks : ~ tasks[k].sentClosed)
  /\ [][(tasks' # tasks /\ agent.ws # "OPEN") => agent'.phase = agent.phase]_allVars

(***************************************************************************)
(* One public request followed from the proxy route to the local origin    *)
(* and back: what the relay puts into the http_request frame, what the     *)
(* agent asks of the origin, what the relay copies into the public         *)
(* response.  Strings are sequences of tokens; header maps are the sets of *)
(* their names, in lower case as Node delivers them.                       *)
(***************************************************************************)
MaxHeaders == 2        \* headers of one public request
MaxOriginHeaders == 1  \* headers of one origin response
MaxParams == 2         \* parameters of one query string

\* the names the Inline relay skips when it copies the request headers
SkippedHeaders == {"host", "connection", "upgrade", "proxy-authenticate",
                   "proxy-authorization", "te", "trailers",
                   "transfer-encoding"}
\* header names a request or a response can carry
HeaderNames == SkippedHeaders \cup {"content-length", "accept"}
HeaderSets == {h \in SUBSET HeaderNames : Cardinality(h) <= MaxHeaders}
OriginHeaderSets ==
  {h \in SUBSET HeaderNames : Cardinality(h) <= MaxOriginHeaders}

\* c.req.param('*') || '': the path after /t/{id}/
PathRests == {<< >>, <<"hello">>}
QueryKeys == {"x", "y"}
RawValues == {"1", "%20"}
\* the parameters of the public URL as written, in order
ParamLists ==
  UNION {[1..n -> QueryKeys \X RawValues] : n \in 0..MaxParams}

\* k=v&k=v
RECURSIVE JoinParams(_)
JoinParams(ps) ==
  IF ps = << >> THEN << >>
  ELSE IF Len(ps) = 1 THEN <<ps[1][1], "=", ps[1][2]>>
  ELSE <<ps[1][1], "=", ps[1][2], "&">> \o JoinParams(Tail(ps))

\* new URL(c.req.url).search: the query as written, with its question mark
urlSearch(ps) == IF ps = << >> THEN << >> ELSE <<"?">> \o JoinParams(ps)

\* percent-decoding done by url.searchParams
Decode(v) == IF v = "%20" THEN " " ELSE v
\* application/x-www-form-urlencoded serialising done by URLSearchParams
Encode(v) == IF v = " " THEN "+" ELSE v

\* url.searchParams.entries()
searchParamsEntries(ps) ==
  [i \in 1..Len(ps) |-> <<ps[i][1], Decode(ps[i][2])>>]

\* Object.fromEntries: one property per key, in the order the keys first
\* appear, holding the value given last
RECURSIVE fromEntries(_)
fromEntries(es) ==
  IF es = << >> THEN << >>
  ELSE LET front == fromEntries(SubSeq(es, 1, Len(es) - 1))
           last  == es[Len(es)]
       IN  IF \E i \in DOMAIN front : front[i][1] = last[1]
           THEN [i \in DOMAIN front |->
                   IF front[i][1] = last[1] THEN last ELSE front[i]]
           ELSE Append(front, last)

\* new URLSearchParams(query).toString()
paramsToString(query) ==
  JoinParams([i \in 1..Len(query) |-> <<query[i][1], Encode(query[i][2])>>])

\* buildQueryString of the agent
buildQueryString(query) ==
  IF query = << >> THEN << >> ELSE <<"?">> \o paramsToString(query)

\* requestData of the proxy route
requestData(b, rest, ps, headers) ==
  [path    |-> IF b = "Inline" THEN <<"/">> \o rest \o urlSearch(ps)
               ELSE <<"/">> \o rest,
   query   |-> fromEntries(searchParamsEntries(ps)),
   headers |-> IF b = "Inline" THEN headers \ SkippedHeaders ELSE headers]

\* filterHeaders of the agent
filterHeaders(program, headers) ==
  headers \ (IF program = "part_000"
             THEN {"host", "connection", "content-length", "transfer-encoding"}
             ELSE {"host", "connection", "content-length"})

\* options of forwardToLocal
forwardOptions(program, frame) ==
  [path    |-> frame.path \o buildQueryString(frame.query),
   headers |-> filterHeaders(program, frame.headers)]

NoFrame == [path |-> << >>, query |-> << >>, headers |-> {}]
NoOptions == [path |-> << >>, headers |-> {}]

InitWire ==
  /\ build \in Builds
  /\ objs = << >>
  /\ tunnels = EmptyMap
  /\ connections = EmptyMap
  /\ pendingRequests = EmptyMap
  /\ timers = EmptyMap
  /\ socks = << >>
  /\ reqs = << >>
  /\ now = 0
  /\ lastActivity = EmptyMap
  /\ sweeps = 0
  /\ agent \in {NewAgent(p) : p \in AgentPrograms}
  /\ tasks = << >>
  /\ wire \in [pc : {"request"}, rest : PathRests, params : ParamLists,
               headers : HeaderSets, frame : {NoFrame}, origin : {NoOptions},
               reply : {{}}, public : {{}}]
  /\ cli = Idle

\* the proxy route up to sendRequest: the http_request frame
proxySend ==
  /\ wire.pc = "request"
  /\ wire' = [wire EXCEPT !.pc = "frame",
                !.frame = requestData(build, wire.rest, wire.params,
                                      wire.headers)]
  /\ UNCHANGED <<vars, sweepVars, agentVars, cli>>

\* handleHttpRequest up to http.request: the request to the local origin
forwardToLocal ==
  /\ wire.pc = "frame"
  /\ wire' = [wire EXCEPT !.pc = "origin",
                !.origin = forwardOptions(agent.program, wire.frame)]
  /\ UNCHANGED <<vars, sweepVars, agentVars, cli>>

\* the origin answers; the http_response frame carries res.headers whole
localResponds(headers) ==
  /\ wire.pc = "origin"
  /\ wire' = [wire EXCEPT !.pc = "reply", !.reply = headers]
  /\ UNCHANGED <<vars, sweepVars, agentVars, cli>>

\* the proxy route after sendRequest: every header of the frame is set on
\* the public response (TunnelManager: c.header for each entry; Inline:
\* new Response(body, {headers: responseHeaders}))
proxyRespond ==
  /\ wire.pc = "reply"
  /\ wire' = [wire EXCEPT !.pc = "done", !.public = wire.reply]
  /\ UNCHANGED <<vars, sweepVars, agentVars, cli>>

NextWire ==
  \/ proxySend
  \/ forwardToLocal
  \/ \E h \in OriginHeaderSets : localResponds(h)
  \/ proxyRespond

SpecWire == InitWire /\ [][NextWire]_allVars

\* C31: no hop-by-hop header (host, connection, upgrade, proxy-authenticate,
\* proxy-authorization, te, trailers, transfer-encoding, content-length) is
\* among the headers of the http_request frame sent to the agent, and none is
\* among the headers of the public response.
C31_HeaderHygiene ==
  LET hopByHop == {"host", "connection", "upgrade", "proxy-authenticate",
                   "proxy-authorization", "te", "trailers",
                   "transfer-encoding", "content-length"}
  IN  /\ wire.pc \in {"frame", "origin", "reply", "done"}
           => wire.frame.headers \cap hopByHop = {}
      /\ wire.pc = "done" => wire.public \cap hopByHop = {}

\* C32: the origin is asked for the public request's path after /t/{id}
\* followed by its query string as written, once.
C32_QueryOnce ==
  wire.pc \in {"origin", "reply", "done"}
    => wire.origin.path = <<"/">> \o wire.rest \o urlSearch(wire.params)

(***************************************************************************)
(* Starting an agent program: parseArgs reads the command line, main then  *)
(* looks at the environment and validates.  An argument is a sequence of   *)
(* tokens (<<"--port", "=", "8080">> is --port=8080), and so is every      *)
(* string value.                                                           *)
(***************************************************************************)
MaxArgs == 2   \* arguments on one command line

Args == {<<"-p">>, <<"--port">>, <<"-s">>, <<"--server">>, <<"-d">>, <<"-h">>,
         <<"--port", "=", "8080">>, <<"--server", "=", "urlA">>,
         <<"8080">>, <<"urlA">>}
ArgLists == UNION {[1..n -> Args] : n \in 0..MaxArgs}
\* process.env.TUNNEL_SERVER, process.env.TUNNEL_PORT; << >> when not set
Envs == [TUNNEL_SERVER : {<< >>, <<"urlE">>}, TUNNEL_PORT : {<< >>, <<"9000">>}]

\* args[i] past the end of the array
Undefined == <<"undefined">>
\* what parseInt returns for text that does not start with a number
NaN == -1

parseInt(s) ==
  IF s = <<"8080">> THEN 8080 ELSE IF s = <<"9000">> THEN 9000 ELSE NaN

\* !value of JavaScript, for a string or undefined
Falsy(s) == s = << >> \/ s = Undefined

\* const options = {...} at the top of parseArgs
defaultOptions(program) ==
  [serverUrl |-> IF program = "local-client"
                 THEN <<"https://your-app.railway.app">>
                 ELSE <<"https://honotunnel-production.up.railway.app">>,
   localPort |-> 3000, subdomain |-> << >>, help |-> FALSE]

\* arg.startsWith(name + '='), which only tunnel-client.js looks for
StartsWith(program, arg, name) ==
  program = "tunnel-client" /\ Len(arg) >= 2 /\ arg[1] = name /\ arg[2] = "="
\* arg.split('=')[1]
AfterEquals(arg) == IF Len(arg) >= 3 THEN <<arg[3]>> ELSE << >>

\* the loop of parseArgs from argument i on
RECURSIVE parseFrom(_, _, _, _)
parseFrom(program, args, i, o) ==
  IF i > Len(args) \/ o.help THEN o
  ELSE LET arg  == args[i]
           next == IF i + 1 <= Len(args) THEN args[i + 1] ELSE Undefined
       IN  IF StartsWith(program, arg, "--server")
           THEN parseFrom(program, args, i + 1,
                          [o EXCEPT !.serverUrl = AfterEquals(arg)])
           ELSE IF StartsWith(program, arg, "--port")
           THEN parseFrom(program, args, i + 1,
                          [o EXCEPT !.localPort = parseInt(AfterEquals(arg))])
           ELSE IF StartsWith(program, arg, "--subdomain")
           THEN parseFrom(program, args, i + 1,
                          [o EXCEPT !.subdomain = AfterEquals(arg)])
           ELSE IF arg \in {<<"--port">>, <<"-p">>}
           THEN parseFrom(program, args, i + 2,
                          [o EXCEPT !.localPort = parseInt(next)])
           ELSE IF arg \in {<<"--server">>, <<"-s">>}
           THEN parseFrom(program, args, i + 2,
                          [o EXCEPT !.serverUrl = next])
           ELSE IF arg \in {<<"--subdomain">>, <<"-d">>}
           THEN parseFrom(program, args, i + 2,
                          [o EXCEPT !.subdomain = next])
           ELSE IF arg \in {<<"--help">>, <<"-h">>}
           THEN [o EXCEPT !.help = TRUE]
           ELSE parseFrom(program, args, i + 1, o)

parseArgs(program, args) == parseFrom(program, args, 1, defaultOptions(program))

\* main: "Override with environment variables if set"
envOverride(o, env) ==
  [o EXCEPT !.serverUrl = IF Falsy(env.TUNNEL_SERVER) THEN @
                          ELSE env.TUNNEL_SERVER,
            !.localPort = IF Falsy(env.TUNNEL_PORT) THEN @
                          ELSE parseInt(env.TUNNEL_PORT)]

\* main: "Validate options", which local-client.js does not do
Valid(program, o) ==
  \/ program = "local-client"
  \/ /\ ~ Falsy(o.serverUrl)
     /\ ~ (o.localPort = NaN \/ o.localPort = 0 \/ o.localPort < 1
           \/ o.localPort > 65535)

InitCli ==
  /\ build = "TunnelManager"
  /\ objs = << >>
  /\ tunnels = EmptyMap
  /\ connections = EmptyMap
  /\ pendingRequests = EmptyMap
  /\ timers = EmptyMap
  /\ socks = << >>
  /\ reqs = << >>
  /\ now = 0
  /\ lastActivity = EmptyMap
  /\ sweeps = 0
  /\ agent \in {NewAgent(p) : p \in AgentPrograms}
  /\ tasks = << >>
  /\ wire = Idle
  /\ cli \in [pc : {"start"}, argv : ArgLists, env : Envs,
              options : {defaultOptions(agent.program)}]

\* const options = parseArgs(); --help ends the process
cliParseArgs ==
  /\ cli.pc = "start"
  /\ LET o == parseArgs(agent.program, cli.argv)
     IN  cli' = [cli EXCEPT !.options = o,
                            !.pc = IF o.help THEN "exit0" ELSE "parsed"]
  /\ UNCHANGED <<vars, sweepVars, agentVars, wire>>

\* the rest of main up to new TunnelClient(options)
main ==
  /\ cli.pc = "parsed"
  /\ LET o == envOverride(cli.options, cli.env)
     IN  cli' = [cli EXCEPT !.options = o,
                            !.pc = IF Valid(agent.program, o) THEN "running"
                                   ELSE "exit1"]
  /\ UNCHANGED <<vars, sweepVars, agentVars, wire>>

NextCli ==
  \/ cliParseArgs
  \/ main

SpecCli == InitCli /\ [][NextCli]_allVars

\* C33: a command line made of one --server/-s or --port/-p flag and its
\* value decides the server URL, respectively the local port, the agent
\* runs with, whatever TUNNEL_SERVER and TUNNEL_PORT hold.
C33_FlagsOverrideEnv ==
  (cli.pc \in {"running", "exit1"} /\ Len(cli.argv) = 2)
    => /\ cli.argv[1] \in {<<"--server">>, <<"-s">>}
            => cli.options.serverUrl = cli.argv[2]
       /\ (cli.argv[1] \in {<<"--port">>, <<"-p">>} /\ cli.argv[2] = <<"8080">>)
            => cli.options.localPort = 8080

====
